---- MODULE Spec2Model ----
(***************************************************************************)
(* A model of the pico-rng90 driver: the CRC engine (crc.c), the frame     *)
(* codec and the device state machine (rng90.c).  One action per public    *)
(* function; the bus transport (i2c_write_blocking, i2c_read_blocking,     *)
(* sleep_ms) and the chip are the environment, whose answers are drawn     *)
(* nondeterministically.                                                   *)
(*                                                                         *)
(* C arrays are modelled as sequences: the C index i is the TLA+ index     *)
(* i + 1.  at(data, i) is the C expression data[i].                        *)
(***************************************************************************)
EXTENDS Integers, Sequences, FiniteSets, TLC

(***************************************************************************)
(* Bounds of the model.                                                    *)
(***************************************************************************)
\* how many distinct byte values the chip may report in each identity byte
NumIdValues == 2

\* the longest buffer handed to the frame codec and to the CRC
MaxFrameLen == 8

(***************************************************************************)
(* Program constants.                                                      *)
(***************************************************************************)
WORD_ADDRESS_RESET == 0
WORD_ADDRESS_SLEEP == 1
WORD_ADDRESS_COMMAND == 3
COMMAND_INFO == 48
COMMAND_SELFTEST == 119
MAX_RESPONSE_SIZE == 35
POLYNOMIAL == 32773

RNG90_SELFTEST_STATUS == 0
RNG90_SELFTEST_DRBG == 1
RNG90_SELFTEST_SHA256 == 32
RNG90_SELFTEST_FULL == 33

RNG90_SELFTEST_PASSED == 0
RNG90_SELFTEST_DRBG_FAILED == 1
RNG90_SELFTEST_DRBG_NOT_RUN == 2
RNG90_SELFTEST_SHA256_NOT_RUN == 16
RNG90_SELFTEST_NEITHER_RUN == 18
RNG90_SELFTEST_SHA256_FAILED == 32
RNG90_SELFTEST_BOTH_FAILED == 33
RNG90_SELFTEST_COMM_ERROR == 255

\* the width of uint8_t and of crc_t (uint16_t)
U8 == 256
U16 == 65536

(***************************************************************************)
(* Bit arithmetic on naturals.                                             *)
(***************************************************************************)
Pow2(n) ==
    <<1, 2, 4, 8, 16, 32, 64, 128, 256, 512, 1024, 2048, 4096, 8192, 16384,
      32768>>[n + 1]

Bit(x, n) == (x \div Pow2(n)) % 2

\* the C operator ^ on two values below 16, bit by bit, tabulated
XorNibble ==
    [x \in 0..15, y \in 0..15 |->
        ((Bit(x, 0) + Bit(y, 0)) % 2)
        + 2 * ((Bit(x, 1) + Bit(y, 1)) % 2)
        + 4 * ((Bit(x, 2) + Bit(y, 2)) % 2)
        + 8 * ((Bit(x, 3) + Bit(y, 3)) % 2)]

\* the C operator ^ on two values below 2^16, four bits at a time
Xor16(a, b) ==
    XorNibble[a % 16, b % 16]
    + 16 * XorNibble[(a \div 16) % 16, (b \div 16) % 16]
    + 256 * XorNibble[(a \div 256) % 16, (b \div 256) % 16]
    + 4096 * XorNibble[(a \div 4096) % 16, (b \div 4096) % 16]

\* data[i] of a C array held as a sequence
at(data, i) == data[i + 1]

(***************************************************************************)
(* crc.c                                                                   *)
(***************************************************************************)
\* the loop of reflect(): bit runs 0..7, data is shifted right each round
RECURSIVE reflect_loop(_, _, _)
reflect_loop(data, bit, reflection) ==
    IF bit >= 8 THEN reflection
    ELSE reflect_loop(data \div 2, bit + 1,
                      IF data % 2 = 1
                      THEN reflection + Pow2(7 - bit)
                      ELSE reflection)

\* A faulty reflect: the byte is returned as it came.
reflect_identity(data) == data

reflect(data) == reflect_loop(data, 0, 0)

\* one round of the inner loop of rng90_crc16()
crc_round(remainder) ==
    IF remainder >= 32768
    THEN Xor16((remainder * 2) % U16, POLYNOMIAL)
    ELSE (remainder * 2) % U16

\* the inner loop of rng90_crc16(): bit runs 8..1, eight rounds
crc_bits(remainder) ==
    crc_round(crc_round(crc_round(crc_round(
    crc_round(crc_round(crc_round(crc_round(remainder))))))))

\* the outer loop of rng90_crc16(): the remainder after the bytes at
\* positions 0 .. pos-1
RECURSIVE crc_bytes(_, _)
crc_bytes(data, pos) ==
    IF pos = 0 THEN 0
    ELSE LET before == crc_bytes(data, pos - 1)
         IN  IF before < U16
             THEN crc_bits(Xor16(before, reflect(at(data, pos - 1)) * 256))
             ELSE before

rng90_crc16(data, length) == Xor16(crc_bytes(data, length), 0)

(***************************************************************************)
(* rng90.c: the frame codec.                                               *)
(***************************************************************************)
\* A faulty validate_response: only the low checksum byte is compared.
validate_response_lsb_only(data) ==
    LET length == (at(data, 0) - 2) % U8
        crc == rng90_crc16(data, length)
    IN  crc % 256 = at(data, length)

\* validate_response(): true iff the CRC of the first data[0]-2 bytes is
\* stored, LSB then MSB, behind them.  length is a uint8_t: it wraps.
validate_response(data) ==
    LET length == (at(data, 0) - 2) % U8
        crc == rng90_crc16(data, length)
        crc_lsb == crc % 256
        crc_msb == (crc \div 256) % 256
    IN  crc_lsb = at(data, length) /\ crc_msb = at(data, length + 1)

\* A faulty set_crc: the checksum is stored MSB first.
set_crc_msb_first(data) ==
    LET total_length == at(data, 0)
        payload_len == (total_length - 2) % U8
        crc == rng90_crc16(data, payload_len)
    IN  IF total_length < 2 THEN data
        ELSE [data EXCEPT ![payload_len + 1] = (crc \div 256) % 256,
                          ![payload_len + 2] = crc % 256]

\* set_crc(): writes the CRC of the first data[0]-2 bytes at the offsets
\* data[0]-2 and data[0]-1; nothing when data[0] < 2.
set_crc(data) ==
    LET total_length == at(data, 0)
        payload_len == (total_length - 2) % U8
        crc == rng90_crc16(data, payload_len)
    IN  IF total_length < 2 THEN data
        ELSE [data EXCEPT ![payload_len + 1] = crc % 256,
                          ![payload_len + 2] = (crc \div 256) % 256]

\* validate_response() reads data[0 .. data[0]-1], with data[0]-2 wrapped to
\* a uint8_t: the reads stay inside a buffer of `size` bytes iff
\* 2 <= data[0] <= size.
validate_in_bounds(data, size) == at(data, 0) >= 2 /\ at(data, 0) <= size

\* What a call of validate_response() on a receive buffer of `size` bytes can
\* return.  A read outside the buffer is undefined behaviour: the bytes found
\* there are arbitrary, so either answer can come back.
validate_results(data, size) ==
    IF validate_in_bounds(data, size) THEN {validate_response(data)}
    ELSE BOOLEAN

(***************************************************************************)
(* The environment: the transport and the chip.                            *)
(***************************************************************************)
\* a negative result of i2c_write_blocking / i2c_read_blocking
PICO_ERROR_GENERIC == 0 - 1

\* i2c_write_blocking(.., len, ..): the bytes written, or a negative error
i2c_write_blocking(len) == {PICO_ERROR_GENERIC, len}

\* i2c_read_blocking(.., len, ..): the bytes read, or a negative error
\* (len is the int the caller computes; a negative one, which the size_t
\* parameter receives as a huge length, is answered with no byte counted)
i2c_read_blocking(len) == {PICO_ERROR_GENERIC, IF len >= 0 THEN len ELSE 0}

\* the n bytes a read of length n receives after the chip's length byte: the
\* rest of the chip's frame, then the idle bus (0xFF)
Deliver(frame, n) ==
    IF n <= 0 THEN <<>>
    ELSE [i \in 1..n |-> IF i + 1 <= Len(frame) THEN frame[i + 1] ELSE 255]

\* One record per transport call of the last API call.
Wr(data, res) == [op |-> "write", data |-> data, len |-> Len(data), res |-> res]
Rd(len, data, res) == [op |-> "read", data |-> data, len |-> len, res |-> res]
Sl(ms) == [op |-> "sleep_ms", data |-> <<>>, len |-> ms, res |-> 0]

\* a frame with a matching checksum / with its last checksum bit flipped
Framed(body) == set_crc(body \o <<0, 0>>)
Corrupt(frame) ==
    [frame EXCEPT ![Len(frame)] = IF frame[Len(frame)] % 2 = 0
                                  THEN frame[Len(frame)] + 1
                                  ELSE frame[Len(frame)] - 1]

\* data with one bit of data[pos] flipped
FlipBit(data, pos, bit) ==
    [data EXCEPT ![pos + 1] = Xor16(@, Pow2(bit))]

\* the byte values the chip reports in an identity field
IdValues == {(208 + 80 * i) % 256 : i \in 0..(NumIdValues - 1)}

\* the identity bytes (rfu, device_id, silicon_id, silicon_rev) the chip may
\* report: every value in every field, no two fields of one report alike
IdReports ==
    {<<v, (v + 80) % 256, (v + 160) % 256, (v + 240) % 256>> : v \in IdValues}

\* the status bytes the chip reports in a 4-byte response
StatusBytes == {RNG90_SELFTEST_PASSED, RNG90_SELFTEST_DRBG_FAILED,
                RNG90_SELFTEST_DRBG_NOT_RUN, RNG90_SELFTEST_SHA256_NOT_RUN,
                RNG90_SELFTEST_NEITHER_RUN, RNG90_SELFTEST_SHA256_FAILED,
                RNG90_SELFTEST_BOTH_FAILED, RNG90_SELFTEST_COMM_ERROR, 7}

\* the bytes an out-of-bounds read of one byte can find
Garbage == {RNG90_SELFTEST_PASSED, RNG90_SELFTEST_BOTH_FAILED,
            RNG90_SELFTEST_COMM_ERROR}

\* what the chip may answer after a reset: the wake status 0x11, the same
\* with a bad checksum, and length bytes below 2 and above the buffer
WakeFrames ==
    {Framed(<<4, 17>>), Corrupt(Framed(<<4, 17>>)),
     <<0>>, <<MAX_RESPONSE_SIZE + 1>>}

\* what the chip may answer to the Info command
InfoFrames ==
    {Framed(<<7>> \o id) : id \in IdReports}
    \cup {Corrupt(Framed(<<7, 208, 32, 208, 32>>)),
          Framed(<<8, 208, 32, 112, 192, 5>>),
          Framed(<<4, 3>>), Framed(<<6, 9, 9, 9>>), <<1>>, <<0>>}

\* what the chip may answer to the SelfTest command
SelfTestFrames ==
    {Framed(<<4, s>>) : s \in StatusBytes}
    \cup {Corrupt(Framed(<<4, 0>>)), Framed(<<3>>), <<1>>, <<0>>}

\* the rng90_selftest_type_t values, and one int outside the enumeration
SelfTestTypes == {RNG90_SELFTEST_STATUS, RNG90_SELFTEST_DRBG,
                  RNG90_SELFTEST_SHA256, RNG90_SELFTEST_FULL, 2}

Instances == {"i2c0"}

(***************************************************************************)
(* The state.                                                              *)
(***************************************************************************)
VARIABLES
    ctx,    \* struct rng90_context
    pre,    \* ctx when the last API call began
    call,   \* the last API call: its name and argument
    ret,    \* what the last API call returned
    bus,    \* the transport calls of the last API call, in order
    out,    \* the lines the last API call printed
    oob     \* whether the last API call read outside a receive buffer

vars == <<ctx, pre, call, ret, bus, out, oob>>

\* the return value of a void function
Void == 0 - 1

\* the end of an API call
Return(c, r, b, o, x) ==
    /\ ctx' = c
    /\ ret' = r
    /\ bus' = b
    /\ out' = o
    /\ oob' = x

(***************************************************************************)
(* rng90.c: the internal functions.  A function that is called by the API  *)
(* is the set of ways its call can end: what it returns, the context it    *)
(* leaves, its transport calls, its printed lines, and whether it read     *)
(* outside its receive buffer.                                             *)
(***************************************************************************)
End(r, c, b, o, x) == [ret |-> r, ctx |-> c, bus |-> b, out |-> o, oob |-> x]

Min(a, b) == IF a < b THEN a ELSE b

\* The receive buffer after response[0] = frame[1] and a read of n bytes
\* into &response[1]: what lies inside a buffer of `size` bytes.  (n = -1,
\* the int length - 1 of a zero length byte, comes with size = 0.)
Received(frame, n, size) == <<frame[1]>> \o Deliver(frame, Min(n, size - 1))

\* log_message(): the "Count" line.  (The data and CRC lines that follow read
\* the same bytes as validate_response.)
log_message(label, data) == <<label>>

\* A faulty load_info_store: device_id and silicon_id taken from each
\* other's byte.
load_info_store_swapped(c, response) ==
    [c EXCEPT !.rfu = at(response, 1),
              !.device_id = at(response, 3),
              !.silicon_id = at(response, 2),
              !.silicon_rev = at(response, 4)]

\* load_info(), lines 316-319: the four bytes behind the length byte
load_info_store(c, response) ==
    [c EXCEPT !.rfu = at(response, 1),
              !.device_id = at(response, 2),
              !.silicon_id = at(response, 3),
              !.silicon_rev = at(response, 4)]

\* A faulty load_info_response: a response is taken as long enough from 5
\* bytes on.
load_info_response_short(c, frame, b, o) ==
    LET length == frame[1]
        n == length - 1
        response == Received(frame, n, length)
        x == ~validate_in_bounds(response, length)
    IN  UNION {
          IF read_count < 0
          THEN {End(FALSE, c, b \o <<Rd(n, <<>>, read_count)>>,
                    o \o <<"RNG90 I2C info command read error">>, length = 0)}
          ELSE LET b2 == b \o <<Rd(n, Tail(response), read_count)>>
                   o2 == o \o log_message("RNG90 Info Response:", response)
               IN  { IF ~valid
                     THEN End(FALSE, c, b2,
                              o2 \o <<"RNG90 I2C response CRC invalid">>, x)
                     ELSE IF length < 5
                     THEN End(FALSE, c, b2,
                              o2 \o <<"RNG90 I2C info response too short">>, x)
                     ELSE End(TRUE, load_info_store(c, response), b2, o2, x)
                   : valid \in validate_results(response, length) }
        : read_count \in i2c_read_blocking(n) }

\* load_info(), lines 293-321: the response of declared length frame[1]
load_info_response(c, frame, b, o) ==
    LET length == frame[1]
        n == length - 1
        response == Received(frame, n, length)
        x == ~validate_in_bounds(response, length)
    IN  UNION {
          IF read_count < 0
          THEN {End(FALSE, c, b \o <<Rd(n, <<>>, read_count)>>,
                    o \o <<"RNG90 I2C info command read error">>, length = 0)}
          ELSE LET b2 == b \o <<Rd(n, Tail(response), read_count)>>
                   o2 == o \o log_message("RNG90 Info Response:", response)
               IN  { IF ~valid
                     THEN End(FALSE, c, b2,
                              o2 \o <<"RNG90 I2C response CRC invalid">>, x)
                     ELSE IF length < 7
                     THEN End(FALSE, c, b2,
                              o2 \o <<"RNG90 I2C info response too short">>, x)
                     ELSE End(TRUE, load_info_store(c, response), b2, o2, x)
                   : valid \in validate_results(response, length) }
        : read_count \in i2c_read_blocking(n) }

\* load_info(), lines 266-267: the command frame, set_crc applied to
\* &info_command[1]
info_command ==
    <<WORD_ADDRESS_COMMAND>> \o set_crc(<<7, COMMAND_INFO, 0, 0, 0, 0, 0>>)

load_info(c) ==
    LET o0 == log_message("RNG90 Info Command:", Tail(info_command))
        o1 == o0 \o <<"RNG90 I2C info command wrote bytes",
                      "RNG90 I2C info command: sleeping 1 ms to wait for response",
                      "RNG90 I2C info command: wait complete">>
    IN  UNION {
          IF count < 0
          THEN {End(FALSE, c, <<Wr(info_command, count)>>,
                    o0 \o <<"RNG90 I2C info command write error">>, FALSE)}
          ELSE UNION {
                 IF rc < 0
                 THEN {End(FALSE, c,
                           <<Wr(info_command, count), Sl(1), Rd(1, <<>>, rc)>>,
                           o1 \o <<"RNG90 I2C info command read error">>, FALSE)}
                 ELSE UNION {
                        load_info_response(c, frame,
                            <<Wr(info_command, count), Sl(1),
                              Rd(1, <<frame[1]>>, rc)>>, o1)
                      : frame \in InfoFrames }
               : rc \in i2c_read_blocking(1) }
        : count \in i2c_write_blocking(8) }

\* A faulty ensure_awake_response: the chip counts as awake whatever the
\* checksum of the wake response.
ensure_awake_response_unchecked(c, frame, b) ==
    LET remaining == IF frame[1] < MAX_RESPONSE_SIZE
                     THEN frame[1] ELSE MAX_RESPONSE_SIZE - 1
        response == Received(frame, remaining, MAX_RESPONSE_SIZE)
        x == ~validate_in_bounds(response, MAX_RESPONSE_SIZE)
    IN  UNION {
          IF read_count < 0
          THEN {End(FALSE, c, b \o <<Rd(remaining, <<>>, read_count)>>,
                    <<"RNG90 auto-wake read error">>, FALSE)}
          ELSE LET b2 == b \o <<Rd(remaining, Tail(response), read_count)>>
                   o2 == log_message("RNG90 Auto-Wake Response:", response)
               IN  {End(TRUE, [c EXCEPT !.sleeping = FALSE], b2, o2, x)}
        : read_count \in i2c_read_blocking(remaining) }

\* A faulty ensure_awake_response: sleeping is cleared as soon as the
\* response has been read, before it is validated.
ensure_awake_response_wakes_first(c, frame, b) ==
    LET remaining == IF frame[1] < MAX_RESPONSE_SIZE
                     THEN frame[1] ELSE MAX_RESPONSE_SIZE - 1
        response == Received(frame, remaining, MAX_RESPONSE_SIZE)
        x == ~validate_in_bounds(response, MAX_RESPONSE_SIZE)
        awake == [c EXCEPT !.sleeping = FALSE]
    IN  UNION {
          IF read_count < 0
          THEN {End(FALSE, c, b \o <<Rd(remaining, <<>>, read_count)>>,
                    <<"RNG90 auto-wake read error">>, FALSE)}
          ELSE LET b2 == b \o <<Rd(remaining, Tail(response), read_count)>>
                   o2 == log_message("RNG90 Auto-Wake Response:", response)
               IN  { IF ~valid
                     THEN End(FALSE, awake, b2,
                              o2 \o <<"RNG90 auto-wake response CRC invalid">>, x)
                     ELSE End(TRUE, awake, b2, o2, x)
                   : valid \in validate_results(response, MAX_RESPONSE_SIZE) }
        : read_count \in i2c_read_blocking(remaining) }

\* ensure_awake(), lines 346-372: the wake response
ensure_awake_response(c, frame, b) ==
    LET remaining == IF frame[1] < MAX_RESPONSE_SIZE
                     THEN frame[1] ELSE MAX_RESPONSE_SIZE - 1
        response == Received(frame, remaining, MAX_RESPONSE_SIZE)
        x == ~validate_in_bounds(response, MAX_RESPONSE_SIZE)
    IN  UNION {
          IF read_count < 0
          THEN {End(FALSE, c, b \o <<Rd(remaining, <<>>, read_count)>>,
                    <<"RNG90 auto-wake read error">>, FALSE)}
          ELSE LET b2 == b \o <<Rd(remaining, Tail(response), read_count)>>
                   o2 == log_message("RNG90 Auto-Wake Response:", response)
               IN  { IF ~valid
                     THEN End(FALSE, c, b2,
                              o2 \o <<"RNG90 auto-wake response CRC invalid">>, x)
                     ELSE End(TRUE, [c EXCEPT !.sleeping = FALSE], b2, o2, x)
                   : valid \in validate_results(response, MAX_RESPONSE_SIZE) }
        : read_count \in i2c_read_blocking(remaining) }

\* ensure_awake(), lines 331-338: the reset write and its one retry; the
\* last count and the transport calls made
ensure_awake_write ==
    LET command == <<WORD_ADDRESS_RESET>>
    IN  UNION {
          IF count1 < 0
          THEN { [count |-> count2,
                  bus |-> <<Wr(command, count1), Sl(2), Wr(command, count2)>>]
               : count2 \in i2c_write_blocking(1) }
          ELSE { [count |-> count1, bus |-> <<Wr(command, count1)>>] }
        : count1 \in i2c_write_blocking(1) }

ensure_awake(c) ==
    IF ~c.sleeping
    THEN {End(TRUE, c, <<>>, <<>>, FALSE)}
    ELSE UNION {
           IF w.count < 0
           THEN {End(FALSE, c, w.bus, <<"RNG90 auto-wake error">>, FALSE)}
           ELSE UNION {
                  IF rc < 0
                  THEN {End(FALSE, c, w.bus \o <<Rd(1, <<>>, rc)>>,
                            <<"RNG90 auto-wake read error">>, FALSE)}
                  ELSE UNION {
                         ensure_awake_response(c, frame,
                             w.bus \o <<Rd(1, <<frame[1]>>, rc)>>)
                       : frame \in WakeFrames }
                : rc \in i2c_read_blocking(1) }
         : w \in ensure_awake_write }

(***************************************************************************)
(* rng90.c: the API.                                                       *)
(***************************************************************************)
\* A faulty rng90_set_i2c_instance: the identity fields are not reset.
rng90_set_i2c_instance_keeps_identity(i2c_inst) ==
    /\ pre' = ctx
    /\ call' = [op |-> "set_i2c_instance", arg |-> 0]
    /\ Return([ctx EXCEPT !.i2c_inst = i2c_inst,
                          !.initialized = FALSE,
                          !.sleeping = TRUE,
                          !.test_complete = FALSE],
              Void, <<>>, <<>>, FALSE)

rng90_set_i2c_instance(i2c_inst) ==
    /\ pre' = ctx
    /\ call' = [op |-> "set_i2c_instance", arg |-> 0]
    /\ Return([i2c_inst |-> i2c_inst,
               initialized |-> FALSE,
               sleeping |-> TRUE,
               rfu |-> 0,
               device_id |-> 0,
               silicon_id |-> 0,
               silicon_rev |-> 0,
               test_complete |-> FALSE],
              Void, <<>>, <<>>, FALSE)

\* A faulty rng90_sleep: the sleep command is sent to a sleeping chip too.
rng90_sleep_while_sleeping ==
    /\ pre' = ctx
    /\ call' = [op |-> "sleep", arg |-> 0]
    /\ IF ~ctx.initialized
       THEN Return(ctx, Void, <<>>, <<>>, FALSE)
       ELSE LET command == <<1>>
            IN  \E count \in i2c_write_blocking(1) :
                    IF count < 0
                    THEN Return(ctx, Void, <<Wr(command, count)>>,
                                <<"RNG90 I2C sleep error">>, FALSE)
                    ELSE Return([ctx EXCEPT !.sleeping = TRUE], Void,
                                <<Wr(command, count)>>,
                                <<"RNG90 I2C sleep wrote bytes">>, FALSE)

\* A faulty rng90_sleep: sleeping is set although the write failed.
rng90_sleep_ignores_error ==
    /\ pre' = ctx
    /\ call' = [op |-> "sleep", arg |-> 0]
    /\ IF ~ctx.initialized \/ ctx.sleeping
       THEN Return(ctx, Void, <<>>, <<>>, FALSE)
       ELSE LET command == <<1>>
            IN  \E count \in i2c_write_blocking(1) :
                    Return([ctx EXCEPT !.sleeping = TRUE], Void,
                           <<Wr(command, count)>>,
                           <<"RNG90 I2C sleep wrote bytes">>, FALSE)

rng90_sleep ==
    /\ pre' = ctx
    /\ call' = [op |-> "sleep", arg |-> 0]
    /\ IF ~ctx.initialized \/ ctx.sleeping
       THEN Return(ctx, Void, <<>>, <<>>, FALSE)
       ELSE LET command == <<1>>
            IN  \E count \in i2c_write_blocking(1) :
                    IF count < 0
                    THEN Return(ctx, Void, <<Wr(command, count)>>,
                                <<"RNG90 I2C sleep error">>, FALSE)
                    ELSE Return([ctx EXCEPT !.sleeping = TRUE], Void,
                                <<Wr(command, count)>>,
                                <<"RNG90 I2C sleep wrote bytes">>, FALSE)

\* A faulty init_write: the reset is written a second time whatever the
\* first write returned.
init_write_retry_always ==
    LET command == <<WORD_ADDRESS_RESET>>
    IN  { [count |-> count2,
           bus |-> <<Wr(command, count1), Sl(2), Wr(command, count2)>>]
        : count1 \in i2c_write_blocking(1), count2 \in i2c_write_blocking(1) }

\* rng90_init(), lines 97-106: the reset write and its one retry; the last
\* count and the transport calls made
init_write ==
    LET command == <<WORD_ADDRESS_RESET>>
    IN  UNION {
          IF count1 < 0
          THEN { [count |-> count2,
                  bus |-> <<Wr(command, count1), Sl(2), Wr(command, count2)>>]
               : count2 \in i2c_write_blocking(1) }
          ELSE { [count |-> count1, bus |-> <<Wr(command, count1)>>] }
        : count1 \in i2c_write_blocking(1) }

\* A faulty init_finish: the flags are set only when load_info succeeded.
init_finish_on_success(i) ==
    IF i.ret
    THEN [i.ctx EXCEPT !.sleeping = FALSE, !.initialized = TRUE]
    ELSE i.ctx

\* rng90_init(), lines 150-153: the context once load_info(ctx) has ended
\* as i; its result is not looked at
init_finish(i) ==
    [i.ctx EXCEPT !.sleeping = FALSE, !.initialized = TRUE]

\* rng90_init(), lines 131-153: the wake response, then the identity query
init_response(c, frame, b, o) ==
    LET remaining == IF frame[1] < MAX_RESPONSE_SIZE
                     THEN frame[1] ELSE MAX_RESPONSE_SIZE - 1
        response == Received(frame, remaining, MAX_RESPONSE_SIZE)
        x == ~validate_in_bounds(response, MAX_RESPONSE_SIZE)
    IN  UNION {
          IF read_count < 0
          THEN {End(Void, c, b \o <<Rd(remaining, <<>>, read_count)>>,
                    o \o <<"RNG90 I2C wake/init read error">>, FALSE)}
          ELSE LET b2 == b \o <<Rd(remaining, Tail(response), read_count)>>
                   o2 == o \o log_message("RNG90 Wake Response:", response)
               IN  UNION {
                     IF ~valid
                     THEN {End(Void, c, b2,
                               o2 \o <<"RNG90 I2C wake/init response CRC invalid">>,
                               x)}
                     ELSE { End(Void, init_finish(i),
                                b2 \o i.bus, o2 \o i.out, x \/ i.oob)
                          : i \in load_info(c) }
                   : valid \in validate_results(response, MAX_RESPONSE_SIZE) }
        : read_count \in i2c_read_blocking(remaining) }

\* rng90_init(), lines 97-153: what follows the initialized check
init_wake ==
    \E w \in init_write :
      IF w.count < 0
      THEN Return(ctx, Void, w.bus, <<"RNG90 I2C wake/init error">>, FALSE)
      ELSE LET o1 == <<"RNG90 I2C wake/init wrote bytes">>
           IN  \E rc \in i2c_read_blocking(1) :
                 IF rc < 0
                 THEN Return(ctx, Void, w.bus \o <<Rd(1, <<>>, rc)>>,
                             o1 \o <<"RNG90 I2C wake/init read error">>, FALSE)
                 ELSE \E frame \in WakeFrames :
                      \E e \in init_response(ctx, frame,
                                 w.bus \o <<Rd(1, <<frame[1]>>, rc)>>, o1) :
                         Return(e.ctx, e.ret, e.bus, e.out, e.oob)

\* A faulty rng90_init: no check of ctx->initialized.
rng90_init_unguarded ==
    /\ pre' = ctx
    /\ call' = [op |-> "init", arg |-> 0]
    /\ init_wake

rng90_init ==
    /\ pre' = ctx
    /\ call' = [op |-> "init", arg |-> 0]
    /\ IF ctx.initialized
       THEN Return(ctx, Void, <<>>, <<>>, FALSE)
       ELSE init_wake

\* A faulty selftest_command: the subtype is left out of the frame.
selftest_command_without_type ==
    [type \in SelfTestTypes |->
        <<WORD_ADDRESS_COMMAND>>
        \o set_crc(<<7, COMMAND_SELFTEST, 0, 0, 0, 0, 0>>)]

\* rng90_self_test(), lines 388-392: the command frame of each subtype,
\* set_crc applied to &command[1]
selftest_command ==
    [type \in SelfTestTypes |->
        <<WORD_ADDRESS_COMMAND>>
        \o set_crc(<<7, COMMAND_SELFTEST, type % U8, 0, 0, 0, 0>>)]

\* rng90_self_test(), lines 403-411: the wait after the command
selftest_wait_ms(type) ==
    CASE type = RNG90_SELFTEST_STATUS -> 1
      [] type = RNG90_SELFTEST_DRBG -> 35
      [] type = RNG90_SELFTEST_SHA256 -> 16
      [] type = RNG90_SELFTEST_FULL -> 50
      [] OTHER -> 50

\* A faulty selftest_result: response[0] is returned.
selftest_result_length_byte(response, length) == {at(response, 0)}

\* A faulty selftest_result: every status but "passed" is turned into the
\* communication error.
selftest_result_collapsed(response, length) ==
    IF length >= 2
    THEN {IF at(response, 1) = RNG90_SELFTEST_PASSED
          THEN RNG90_SELFTEST_PASSED ELSE RNG90_SELFTEST_COMM_ERROR}
    ELSE Garbage

\* rng90_self_test(), line 440: response[1], which lies inside the buffer
\* iff the declared length is >= 2 (else the byte found there is arbitrary)
selftest_result(response, length) ==
    IF length >= 2 THEN {at(response, 1)} ELSE Garbage

\* A faulty selftest_response: a response with the status "passed" sets
\* test_complete.
selftest_response_marks_complete(c, frame, b, o, x0) ==
    LET length == frame[1]
        n == length - 1
        response == Received(frame, n, length)
        x == x0 \/ ~validate_in_bounds(response, length)
    IN  UNION {
          IF read_count < 0
          THEN {End(RNG90_SELFTEST_COMM_ERROR, c,
                    b \o <<Rd(n, <<>>, read_count)>>,
                    o \o <<"RNG90 self_test read error">>, x0 \/ length = 0)}
          ELSE LET b2 == b \o <<Rd(n, Tail(response), read_count)>>
                   o2 == o \o log_message("RNG90 SelfTest Response:", response)
               IN  UNION {
                     IF ~valid
                     THEN {End(RNG90_SELFTEST_COMM_ERROR, c, b2,
                               o2 \o <<"RNG90 self_test response CRC invalid">>,
                               x)}
                     ELSE { End(status,
                                IF status = RNG90_SELFTEST_PASSED
                                THEN [c EXCEPT !.test_complete = TRUE]
                                ELSE c,
                                b2, o2, x)
                          : status \in selftest_result(response, length) }
                   : valid \in validate_results(response, length) }
        : read_count \in i2c_read_blocking(n) }

\* rng90_self_test(), lines 422-440: the response of declared length frame[1]
selftest_response(c, frame, b, o, x0) ==
    LET length == frame[1]
        n == length - 1
        response == Received(frame, n, length)
        x == x0 \/ ~validate_in_bounds(response, length)
    IN  UNION {
          IF read_count < 0
          THEN {End(RNG90_SELFTEST_COMM_ERROR, c,
                    b \o <<Rd(n, <<>>, read_count)>>,
                    o \o <<"RNG90 self_test read error">>, x0 \/ length = 0)}
          ELSE LET b2 == b \o <<Rd(n, Tail(response), read_count)>>
                   o2 == o \o log_message("RNG90 SelfTest Response:", response)
               IN  UNION {
                     IF ~valid
                     THEN {End(RNG90_SELFTEST_COMM_ERROR, c, b2,
                               o2 \o <<"RNG90 self_test response CRC invalid">>,
                               x)}
                     ELSE { End(status, c, b2, o2, x)
                          : status \in selftest_result(response, length) }
                   : valid \in validate_results(response, length) }
        : read_count \in i2c_read_blocking(n) }

\* rng90_self_test(), lines 383-440: what follows the initialized check
selftest_exchange(type) ==
    \E a \in ensure_awake(ctx) :
      IF ~a.ret
      THEN Return(a.ctx, RNG90_SELFTEST_COMM_ERROR, a.bus, a.out, a.oob)
      ELSE LET command == selftest_command[type]
               o1 == a.out \o log_message("RNG90 SelfTest Command:",
                                          Tail(command))
           IN  \E count \in i2c_write_blocking(8) :
                 IF count < 0
                 THEN Return(a.ctx, RNG90_SELFTEST_COMM_ERROR,
                             a.bus \o <<Wr(command, count)>>,
                             o1 \o <<"RNG90 self_test write error">>, a.oob)
                 ELSE LET b1 == a.bus \o <<Wr(command, count),
                                           Sl(selftest_wait_ms(type))>>
                      IN  \E rc \in i2c_read_blocking(1) :
                            IF rc < 0
                            THEN Return(a.ctx, RNG90_SELFTEST_COMM_ERROR,
                                        b1 \o <<Rd(1, <<>>, rc)>>,
                                        o1 \o <<"RNG90 self_test read error">>,
                                        a.oob)
                            ELSE \E frame \in SelfTestFrames :
                                 \E e \in selftest_response(a.ctx, frame,
                                            b1 \o <<Rd(1, <<frame[1]>>, rc)>>,
                                            o1, a.oob) :
                                    Return(e.ctx, e.ret, e.bus, e.out, e.oob)

\* A faulty rng90_self_test: no check of ctx->initialized.
rng90_self_test_unguarded(type) ==
    /\ pre' = ctx
    /\ call' = [op |-> "self_test", arg |-> type]
    /\ selftest_exchange(type)

rng90_self_test(type) ==
    /\ pre' = ctx
    /\ call' = [op |-> "self_test", arg |-> type]
    /\ IF ~ctx.initialized
       THEN Return(ctx, RNG90_SELFTEST_COMM_ERROR, <<>>,
                   <<"RNG90 self_test: not initialized">>, FALSE)
       ELSE selftest_exchange(type)

(***************************************************************************)
(* The specification: the context as rng90_set_i2c_instance() leaves it,   *)
(* then any sequence of API calls.                                         *)
(***************************************************************************)
Attached(i2c_inst) ==
    [i2c_inst |-> i2c_inst, initialized |-> FALSE, sleeping |-> TRUE,
     rfu |-> 0, device_id |-> 0, silicon_id |-> 0, silicon_rev |-> 0,
     test_complete |-> FALSE]

Init ==
    /\ ctx \in {Attached(i) : i \in Instances}
    /\ pre = ctx
    /\ call = [op |-> "set_i2c_instance", arg |-> 0]
    /\ ret = Void
    /\ bus = <<>>
    /\ out = <<>>
    /\ oob = FALSE

Next ==
    \/ \E i2c_inst \in Instances : rng90_set_i2c_instance(i2c_inst)
    \/ rng90_init
    \/ rng90_sleep
    \/ \E type \in SelfTestTypes : rng90_self_test(type)

Spec == Init /\ [][Next]_vars

(***************************************************************************)
(* rng90_random(): declared in rng90.h, its body is not part of the        *)
(* sources at hand.  Modelled from its documentation: not initialized ->   *)
(* false; ensure_awake(); then one fetch exchange per 32-byte segment, in  *)
(* the command/response discipline of load_info(); the first wait depends  *)
(* on test_complete; the first failed write, read or checksum ends the     *)
(* call with false.                                                        *)
(***************************************************************************)
\* the opcode of the Random command and the bytes one exchange yields
COMMAND_RANDOM == 22
RANDOM_CHUNK == 32

\* the lengths asked of rng90_random()
RandomLengths == {1, RANDOM_CHUNK, RANDOM_CHUNK + 1, 40, 2 * RANDOM_CHUNK,
                  2 * RANDOM_CHUNK + 1}

\* the 35-byte response to a Random command: count, 32 data bytes, CRC
random_frame ==
    Framed(<<MAX_RESPONSE_SIZE>> \o [i \in 1..RANDOM_CHUNK |-> (37 * i) % U8])

\* what the chip may answer to the Random command: the frame, and the frame
\* with a bit of its CRC LSB or of a data byte flipped
RandomFrames ==
    {random_frame,
     FlipBit(random_frame, MAX_RESPONSE_SIZE - 2, 0),
     FlipBit(random_frame, 5, 7)}

random_command ==
    <<WORD_ADDRESS_COMMAND>> \o set_crc(<<7, COMMAND_RANDOM, 0, 0, 0, 0, 0>>)

\* the wait before the response is read
random_wait(first, test_complete) ==
    IF ~first THEN "next chunk"
    ELSE IF test_complete THEN "after self-test" ELSE "after boot"

RandomWaits == {"after boot", "after self-test", "next chunk"}

\* one fetch exchange after each wait: whether it succeeded, and its
\* transport calls
random_exchanges ==
    [wait \in RandomWaits |->
      UNION {
        IF count < 0
        THEN {[ok |-> FALSE, data |-> <<>>,
               bus |-> <<Wr(random_command, count)>>]}
        ELSE LET b1 == <<Wr(random_command, count), Sl(wait)>>
             IN  UNION {
                   IF rc < 0
                   THEN {[ok |-> FALSE, data |-> <<>>,
                          bus |-> b1 \o <<Rd(1, <<>>, rc)>>]}
                   ELSE UNION {
                          LET n == frame[1] - 1
                              response ==
                                  Received(frame, n, MAX_RESPONSE_SIZE)
                              b2 == b1 \o <<Rd(1, <<frame[1]>>, rc)>>
                          IN  { IF read_count < 0
                                THEN [ok |-> FALSE, data |-> <<>>,
                                      bus |-> b2 \o <<Rd(n, <<>>,
                                                         read_count)>>]
                                ELSE [ok |-> validate_response(response),
                                      data |-> response,
                                      bus |-> b2 \o <<Rd(n, Tail(response),
                                                         read_count)>>]
                              : read_count \in i2c_read_blocking(n) }
                        : frame \in RandomFrames }
                 : rc \in i2c_read_blocking(1) }
      : count \in i2c_write_blocking(8) }]

random_exchange(first, test_complete) ==
    random_exchanges[random_wait(first, test_complete)]

\* the copy of the first n data bytes of a response into buf
Cp(response, n) ==
    [op |-> "memcpy", data |-> SubSeq(response, 2, n + 1), len |-> n,
     res |-> 0]

\* A faulty random_loop: a failed exchange is skipped and the next segment
\* is fetched.
RECURSIVE random_loop_continues(_, _, _, _, _)
random_loop_continues(c, remaining, first, b, o) ==
    IF remaining = 0 THEN {End(TRUE, c, b, o, FALSE)}
    ELSE LET chunk == Min(remaining, RANDOM_CHUNK)
         IN  UNION {
               IF ~e.ok
               THEN random_loop_continues(c, remaining - chunk, FALSE,
                                          b \o e.bus, o)
               ELSE random_loop_continues(c, remaining - chunk, FALSE,
                        b \o e.bus \o <<Cp(e.data, chunk)>>, o)
             : e \in random_exchange(first, c.test_complete) }

\* the loop over the segments still to fetch
RECURSIVE random_loop(_, _, _, _, _)
random_loop(c, remaining, first, b, o) ==
    IF remaining = 0 THEN {End(TRUE, c, b, o, FALSE)}
    ELSE LET chunk == Min(remaining, RANDOM_CHUNK)
         IN  UNION {
               IF ~e.ok
               THEN {End(FALSE, c, b \o e.bus,
                         o \o <<"RNG90 random error">>, FALSE)}
               ELSE random_loop(c, remaining - chunk, FALSE,
                                b \o e.bus \o <<Cp(e.data, chunk)>>, o)
             : e \in random_exchange(first, c.test_complete) }

rng90_random(len) ==
    /\ pre' = ctx
    /\ call' = [op |-> "random", arg |-> len]
    /\ IF ~ctx.initialized
       THEN Return(ctx, FALSE, <<>>, <<"RNG90 random: not initialized">>,
                   FALSE)
       ELSE \E a \in ensure_awake(ctx) :
              IF ~a.ret
              THEN Return(a.ctx, FALSE, a.bus, a.out, a.oob)
              ELSE \E e \in random_loop(a.ctx, len, TRUE, a.bus, a.out) :
                     Return(e.ctx, e.ret, e.bus, e.out, e.oob \/ a.oob)

\* the API with rng90_random()
RandomNext ==
    \/ Next
    \/ \E len \in RandomLengths : rng90_random(len)

RandomSpec == Init /\ [][RandomNext]_vars

(***************************************************************************)
(* The frame codec and the CRC on their own: a buffer is given, then       *)
(* set_crc(), validate_response() and rng90_crc16() are applied to it, and *)
(* a bit of a checksummed frame may be flipped before it is validated.     *)
(* bus is the sequence of steps so far, ret the buffer or the value the    *)
(* last step left.                                                         *)
(***************************************************************************)
\* the byte values a buffer byte may hold
PayloadValues == {49, 255}

\* the bodies of n bytes
RECURSIVE Bodies(_)
Bodies(n) ==
    IF n = 0 THEN {<<>>}
    ELSE {<<v>> \o b : v \in PayloadValues, b \in Bodies(n - 1)}

\* the buffers: MaxFrameLen bytes with any first byte 0 .. MaxFrameLen, the
\* buffers that are exactly as long as their first byte declares, and the
\* Info command before set_crc
Buffers ==
    {<<L>> \o b : L \in 0..MaxFrameLen, b \in Bodies(MaxFrameLen - 1)}
    \cup UNION {{<<L>> \o b : b \in Bodies(L - 1)} : L \in 1..MaxFrameLen}
    \cup {<<7, COMMAND_INFO, 0, 0, 0, 0, 0>>}

\* one step: the function applied, the buffer it was given, its int argument
Did(op, data, n) == [op |-> op, data |-> data, len |-> n, res |-> 0]

CodecInit ==
    /\ ctx \in {Attached(i) : i \in Instances}
    /\ pre = ctx
    /\ call = [op |-> "buffer", arg |-> 0]
    /\ ret \in Buffers
    /\ bus = <<>>
    /\ out = <<>>
    /\ oob = FALSE

\* set_crc(ret)
Call_set_crc ==
    /\ call.op = "buffer"
    /\ call' = [op |-> "set_crc", arg |-> 0]
    /\ bus' = Append(bus, Did("set_crc", ret, 0))
    /\ ret' = set_crc(ret)
    /\ UNCHANGED <<ctx, pre, out, oob>>

\* a frame as set_crc() left it, exactly as long as it declares, has one
\* bit flipped
Corrupted ==
    /\ call.op = "set_crc"
    /\ ret[1] = Len(ret)
    /\ \E pos \in 0..(Len(ret) - 1), bit \in 0..7 :
         /\ call' = [op |-> "flip", arg |-> 8 * pos + bit]
         /\ bus' = Append(bus, Did("flip", ret, 8 * pos + bit))
         /\ ret' = FlipBit(ret, pos, bit)
    /\ UNCHANGED <<ctx, pre, out, oob>>

\* validate_response(ret), on the buffer set_crc() or the flip left
Call_validate_response ==
    /\ call.op \in {"set_crc", "flip"}
    /\ call' = [op |-> "validate_response", arg |-> 0]
    /\ bus' = Append(bus, Did("validate_response", ret, 0))
    /\ ret' \in validate_results(ret, Len(ret))
    /\ oob' = ~validate_in_bounds(ret, Len(ret))
    /\ UNCHANGED <<ctx, pre, out>>

\* rng90_crc16(ret, length), for every length the buffer holds
Call_rng90_crc16 ==
    /\ call.op = "buffer"
    /\ \E length \in 0..Len(ret) :
         /\ call' = [op |-> "rng90_crc16", arg |-> length]
         /\ bus' = Append(bus, Did("rng90_crc16", ret, length))
         /\ ret' = rng90_crc16(ret, length)
    /\ UNCHANGED <<ctx, pre, out, oob>>

CodecNext ==
    \/ Call_set_crc
    \/ Corrupted
    \/ Call_validate_response
    \/ Call_rng90_crc16

CodecSpec == CodecInit /\ [][CodecNext]_vars

(***************************************************************************)
(* What an observer of the last API call sees on the transport.            *)
(***************************************************************************)
IsWrite(e) == e.op = "write"
IsRead(e) == e.op = "read"
IsResetWrite(e) == e.op = "write" /\ e.data = <<WORD_ADDRESS_RESET>>
IsCommandWrite(e) ==
    e.op = "write" /\ e.len > 1 /\ e.data[1] = WORD_ADDRESS_COMMAND

Writes == SelectSeq(bus, IsWrite)
Reads == SelectSeq(bus, IsRead)
ResetWrites == SelectSeq(bus, IsResetWrite)
CommandWrites == SelectSeq(bus, IsCommandWrite)

\* the identity fields of a context
Identity(c) == <<c.rfu, c.device_id, c.silicon_id, c.silicon_rev>>

\* the bytes two successful reads (length byte, then the rest) put in the
\* receive buffer
Buffer(r1, r2) == r1.data \o r2.data

\* A buffer of `size` bytes holds a frame whose declared length fits it and
\* whose last two bytes are the CRC (LSB, MSB) of the bytes before them.
\* Stated with rng90_crc16 alone, not with validate_response.
FrameOk(buf, size) ==
    /\ buf[1] >= 2
    /\ buf[1] <= size
    /\ buf[1] <= Len(buf)
    /\ LET crc == rng90_crc16(buf, buf[1] - 2)
       IN  /\ buf[buf[1] - 1] = crc % 256
           /\ buf[buf[1]] = crc \div 256

\* the declared length lies inside the buffer, the checksum does not match
FrameBad(buf, size) ==
    /\ buf[1] >= 2
    /\ buf[1] <= size
    /\ ~FrameOk(buf, size)

\* the declared length is one validate_response cannot check inside the
\* buffer
FrameOutside(buf, size) == buf[1] < 2 \/ buf[1] > size

Printed(line) == \E k \in 1..Len(out) : out[k] = line

(***************************************************************************)
(* rng90_init() as seen on the transport.  Its reads, in order: the wake   *)
(* length byte, the rest of the wake response, the identity length byte,   *)
(* the rest of the identity response.                                      *)
(***************************************************************************)
InitCall == call.op = "init"

InitResetOk ==
    Len(ResetWrites) >= 1 /\ ResetWrites[Len(ResetWrites)].res >= 0

InitWakeRead == Len(Reads) >= 2 /\ Reads[1].res >= 0 /\ Reads[2].res >= 0
InitWakeReadFailed ==
    \/ Len(Reads) = 1 /\ Reads[1].res < 0
    \/ Len(Reads) = 2 /\ Reads[2].res < 0

InitWakeBuffer == Buffer(Reads[1], Reads[2])

\* the wake response passed / failed checksum validation.  For a declared
\* length validate_response cannot check inside the buffer, the answer is
\* the one the call acted on.
InitWakeValid ==
    /\ InitWakeRead
    /\ \/ FrameOk(InitWakeBuffer, MAX_RESPONSE_SIZE)
       \/ /\ FrameOutside(InitWakeBuffer, MAX_RESPONSE_SIZE)
          /\ ~Printed("RNG90 I2C wake/init response CRC invalid")
InitWakeInvalid ==
    /\ InitWakeRead
    /\ \/ FrameBad(InitWakeBuffer, MAX_RESPONSE_SIZE)
       \/ /\ FrameOutside(InitWakeBuffer, MAX_RESPONSE_SIZE)
          /\ Printed("RNG90 I2C wake/init response CRC invalid")

InitInfoBuffer == Buffer(Reads[3], Reads[4])

\* the identity query succeeded: command written, both reads answered, a
\* checksum-valid frame of declared length >= 7
InitInfoOk ==
    /\ Len(CommandWrites) = 1 /\ CommandWrites[1].res >= 0
    /\ Len(Reads) = 4 /\ Reads[3].res >= 0 /\ Reads[4].res >= 0
    /\ FrameOk(InitInfoBuffer, InitInfoBuffer[1])
    /\ InitInfoBuffer[1] >= 7

(***************************************************************************)
(* Claims.                                                                 *)
(***************************************************************************)

\* C1: after rng90_init() on an uninitialized context, when the reset write
\* succeeded, the wake response is checksum-valid and the identity response
\* is a checksum-valid frame of declared length >= 7, the context is
\* initialized, awake, and rfu, device_id, silicon_id, silicon_rev are the
\* response bytes 1, 2, 3, 4.
C1_InitLoadsIdentity ==
    (/\ InitCall
     /\ ~pre.initialized
     /\ InitResetOk
     /\ InitWakeValid
     /\ InitInfoOk)
    => /\ ctx.initialized
       /\ ~ctx.sleeping
       /\ ctx.rfu = at(InitInfoBuffer, 1)
       /\ ctx.device_id = at(InitInfoBuffer, 2)
       /\ ctx.silicon_id = at(InitInfoBuffer, 3)
       /\ ctx.silicon_rev = at(InitInfoBuffer, 4)

\* a successful init that loaded the identity 0x20 0x70 0xC0 0x10
C1_Witness ==
    /\ InitCall
    /\ ~pre.initialized
    /\ InitResetOk
    /\ InitWakeRead
    /\ FrameOk(InitWakeBuffer, MAX_RESPONSE_SIZE)
    /\ InitInfoOk
    /\ Identity(ctx) = <<32, 112, 192, 16>>

\* C2: rng90_init() on an initialized context makes no transport call (no
\* write, no read, no delay) and leaves every context field as it was.
C2_InitIdempotent ==
    (InitCall /\ pre.initialized) => (bus = <<>> /\ ctx = pre)

\* rng90_init() was called on an initialized, awake context
C2_Witness == InitCall /\ pre.initialized /\ ~pre.sleeping

\* C3: rng90_init() writes the reset command at most twice, a second time
\* only after a negative first result; when both are negative no read and no
\* command frame follow and the context is unchanged, still uninitialized.
C3_InitResetRetry ==
    InitCall =>
        /\ Len(ResetWrites) <= 2
        /\ Len(ResetWrites) = 2 => ResetWrites[1].res < 0
        /\ (/\ Len(ResetWrites) = 2
            /\ ResetWrites[1].res < 0
            /\ ResetWrites[2].res < 0)
           => /\ Reads = <<>>
              /\ CommandWrites = <<>>
              /\ ctx = pre
              /\ ~ctx.initialized

\* both reset writes of an init failed
C3_Witness ==
    /\ InitCall
    /\ Len(ResetWrites) = 2
    /\ ResetWrites[1].res < 0
    /\ ResetWrites[2].res < 0

\* C4: when a read of the wake response fails, or the wake response fails
\* checksum validation, rng90_init() ends uninitialized and sleeping, with
\* the identity fields unchanged and no command frame written.
C4_InitWakeRejected ==
    (InitCall /\ ~pre.initialized /\ (InitWakeReadFailed \/ InitWakeInvalid))
    => /\ ~ctx.initialized
       /\ ctx.sleeping
       /\ Identity(ctx) = Identity(pre)
       /\ CommandWrites = <<>>

\* an init whose wake response arrived with a wrong checksum
C4_Witness ==
    /\ InitCall
    /\ ~pre.initialized
    /\ InitWakeRead
    /\ FrameBad(InitWakeBuffer, MAX_RESPONSE_SIZE)

\* C5: once the wake response has validated, rng90_init() ends initialized
\* and awake whether or not the identity query succeeds; when the query
\* fails the identity fields keep their reset value 0.
C5_InitAfterWake ==
    (InitCall /\ ~pre.initialized /\ InitResetOk /\ InitWakeValid)
    => /\ ctx.initialized
       /\ ~ctx.sleeping
       /\ ~InitInfoOk => Identity(ctx) = <<0, 0, 0, 0>>

\* an init whose identity response was checksum-valid but shorter than 7
C5_Witness ==
    /\ InitCall
    /\ ~pre.initialized
    /\ InitResetOk
    /\ InitWakeValid
    /\ Len(Reads) = 4 /\ Reads[3].res >= 0 /\ Reads[4].res >= 0
    /\ FrameOk(InitInfoBuffer, InitInfoBuffer[1])
    /\ InitInfoBuffer[1] < 7
    /\ ctx.initialized

SleepCall == call.op = "sleep"

\* C6: rng90_sleep() on a context that is not (initialized and awake) makes
\* no transport call and leaves every context field as it was.
C6_SleepNoOp ==
    (SleepCall /\ ~(pre.initialized /\ ~pre.sleeping))
    => (bus = <<>> /\ ctx = pre)

\* rng90_sleep() was called on an initialized context already asleep
C6_Witness == SleepCall /\ pre.initialized /\ pre.sleeping

\* C7: rng90_sleep() on an initialized, awake context writes exactly one
\* frame, the single byte 0x01; sleeping becomes true iff the write returned
\* a non-negative result; no other field changes.
C7_SleepWrites ==
    (SleepCall /\ pre.initialized /\ ~pre.sleeping)
    => /\ Len(bus) = 1
       /\ bus[1].op = "write"
       /\ bus[1].data = <<WORD_ADDRESS_SLEEP>>
       /\ ctx.sleeping = (bus[1].res >= 0)
       /\ ctx = [pre EXCEPT !.sleeping = ctx.sleeping]

\* a sleep whose write failed, the context still awake
C7_Witness ==
    /\ SleepCall
    /\ pre.initialized
    /\ ~pre.sleeping
    /\ Len(bus) = 1
    /\ bus[1].res < 0
    /\ ~ctx.sleeping

(***************************************************************************)
(* rng90_self_test() as seen on the transport.  When the command frame was *)
(* written and the context was asleep before, the first two reads are the  *)
(* wake response; the two reads after the command are the response.        *)
(***************************************************************************)
SelfTestCall == call.op = "self_test"

SelfTestWakeReads == IF pre.sleeping THEN 2 ELSE 0

SelfTestRead ==
    /\ Len(CommandWrites) = 1
    /\ CommandWrites[1].res >= 0
    /\ Len(Reads) = SelfTestWakeReads + 2
    /\ Reads[SelfTestWakeReads + 1].res >= 0
    /\ Reads[SelfTestWakeReads + 2].res >= 0

SelfTestBuffer ==
    Buffer(Reads[SelfTestWakeReads + 1], Reads[SelfTestWakeReads + 2])

\* the chip answered with a checksum-valid response
SelfTestAnswered ==
    SelfTestRead /\ FrameOk(SelfTestBuffer, SelfTestBuffer[1])

\* a step of the exchange failed locally: not initialized, wake failed (no
\* command frame written), command write negative, a read negative, or the
\* response failed checksum validation
SelfTestLocalFailure ==
    \/ ~pre.initialized
    \/ Len(CommandWrites) = 0
    \/ CommandWrites[1].res < 0
    \/ Len(Reads) < SelfTestWakeReads + 2
    \/ Reads[SelfTestWakeReads + 1].res < 0
    \/ Reads[SelfTestWakeReads + 2].res < 0
    \/ FrameBad(SelfTestBuffer, SelfTestBuffer[1])
    \/ /\ FrameOutside(SelfTestBuffer, SelfTestBuffer[1])
       /\ Printed("RNG90 self_test response CRC invalid")

\* C8: rng90_self_test() on an uninitialized context returns the
\* communication error for every subtype, makes no transport call and
\* leaves every context field as it was.
C8_SelfTestUninitialized ==
    (SelfTestCall /\ ~pre.initialized)
    => /\ ret = RNG90_SELFTEST_COMM_ERROR
       /\ bus = <<>>
       /\ ctx = pre

\* a full self-test was asked of an uninitialized context
C8_Witness ==
    SelfTestCall /\ ~pre.initialized /\ call.arg = RNG90_SELFTEST_FULL

\* C9: when every step of the self-test exchange succeeds, the result is
\* exactly the second byte of the response, whatever status it carries.
C9_SelfTestStatus ==
    (SelfTestCall /\ pre.initialized /\ SelfTestAnswered)
    => ret = at(SelfTestBuffer, 1)

\* a chip woken by the call answered "both failed" and that was the result
C9_Witness ==
    /\ SelfTestCall
    /\ pre.initialized
    /\ pre.sleeping
    /\ SelfTestAnswered
    /\ at(SelfTestBuffer, 1) = RNG90_SELFTEST_BOTH_FAILED
    /\ ret = RNG90_SELFTEST_BOTH_FAILED

\* C10 as claimed: a local failure yields the communication error, and the
\* communication error is never the result of a call in which the chip
\* answered with a checksum-valid response.
C10_CommErrorOnlyLocal ==
    SelfTestCall =>
        /\ SelfTestLocalFailure => ret = RNG90_SELFTEST_COMM_ERROR
        /\ (pre.initialized /\ SelfTestAnswered)
           => ret # RNG90_SELFTEST_COMM_ERROR

\* C10, amended: a local failure yields the communication error; when the
\* chip answered with a checksum-valid response, the result is the
\* communication error iff the status byte of that response is 0xFF.
C10_CommErrorAmended ==
    SelfTestCall =>
        /\ SelfTestLocalFailure => ret = RNG90_SELFTEST_COMM_ERROR
        /\ (pre.initialized /\ SelfTestAnswered)
           => (ret = RNG90_SELFTEST_COMM_ERROR
               <=> at(SelfTestBuffer, 1) = RNG90_SELFTEST_COMM_ERROR)

\* a checksum-valid response with status 0xFF gave the communication error
C10_Witness ==
    /\ SelfTestCall
    /\ pre.initialized
    /\ SelfTestAnswered
    /\ at(SelfTestBuffer, 1) = RNG90_SELFTEST_COMM_ERROR
    /\ ret = RNG90_SELFTEST_COMM_ERROR

(***************************************************************************)
(* The wake step of an API call as seen on the transport: a reset write,   *)
(* then the two reads of the wake response.                                *)
(***************************************************************************)
\* the call printed that its wake response failed checksum validation
WakeInvalidPrinted ==
    \/ Printed("RNG90 I2C wake/init response CRC invalid")
    \/ Printed("RNG90 auto-wake response CRC invalid")

\* the transport call j is a reset write with a non-negative result, and the
\* two calls behind it read a wake response that passed checksum validation
WokenAt(j) ==
    /\ j + 2 <= Len(bus)
    /\ IsResetWrite(bus[j]) /\ bus[j].res >= 0
    /\ IsRead(bus[j + 1]) /\ bus[j + 1].res >= 0
    /\ IsRead(bus[j + 2]) /\ bus[j + 2].res >= 0
    /\ LET buf == Buffer(bus[j + 1], bus[j + 2])
       IN  \/ FrameOk(buf, MAX_RESPONSE_SIZE)
           \/ FrameOutside(buf, MAX_RESPONSE_SIZE) /\ ~WakeInvalidPrinted

\* the call tried to wake the chip
WakeTried == Len(ResetWrites) >= 1

\* C11: every command frame (word address 0x03) is written either by a call
\* that began with sleeping = false, or after a non-negative reset write of
\* the same call followed by a wake response that passed checksum
\* validation; a call whose wake failed writes no command frame.
C11_CommandOnlyAwake ==
    /\ \A k \in 1..Len(bus) :
          IsCommandWrite(bus[k])
          => \/ ~pre.sleeping
             \/ \E j \in 1..(k - 3) : WokenAt(j)
    /\ (WakeTried /\ ~\E j \in 1..Len(bus) : WokenAt(j))
       => CommandWrites = <<>>

\* a self-test on a sleeping context woke the chip and wrote its command
C11_Witness ==
    /\ SelfTestCall
    /\ pre.sleeping
    /\ WokenAt(1)
    /\ Len(CommandWrites) = 1
    /\ IsCommandWrite(bus[4])

\* C12: in the wake, identity and self-test exchanges no call reads or
\* writes a receive-buffer index outside the buffer, whatever length byte
\* the chip reports: a declared length below 2 or above the buffer size
\* never reaches validate_response.
C12_ReadsInsideBuffer == ~oob

\* an init whose wake response declared 36 bytes for the 35-byte buffer
C12_Witness ==
    /\ InitCall
    /\ InitWakeRead
    /\ InitWakeBuffer[1] = MAX_RESPONSE_SIZE + 1

(***************************************************************************)
(* The frame codec on its own, as seen after each step.                    *)
(***************************************************************************)
\* the buffer the last step was given
CodecIn == bus[Len(bus)].data

\* the last step is validate_response() on the buffer set_crc() left
ValidatedAfterSetCrc ==
    /\ call.op = "validate_response"
    /\ Len(bus) = 2
    /\ bus[1].op = "set_crc"

\* set_crc() on a buffer whose first byte L lies in minL .. buffer size
\* changes the bytes at the offsets L-2 and L-1 only, to the LSB and the MSB
\* of the CRC of the bytes before them, and validate_response() on the
\* result returns true
SetCrcRoundTrip(minL) ==
    /\ (call.op = "set_crc" /\ CodecIn[1] \in minL..Len(CodecIn))
       => LET L == CodecIn[1]
              crc == rng90_crc16(CodecIn, L - 2)
          IN  /\ Len(ret) = Len(CodecIn)
              /\ \A i \in 0..(Len(ret) - 1) :
                    i \notin {L - 2, L - 1} => at(ret, i) = at(CodecIn, i)
              /\ at(ret, L - 2) = crc % 256
              /\ at(ret, L - 1) = crc \div 256
    /\ (ValidatedAfterSetCrc /\ bus[1].data[1] \in minL..Len(bus[1].data))
       => ret = TRUE

\* C13 as claimed: for every buffer whose first byte declares a length L
\* with 2 <= L <= buffer size, validate_response after set_crc returns true
\* and set_crc changes only the bytes at the offsets L-2 and L-1.
C13_SetCrcValidates == SetCrcRoundTrip(2)

\* C13, amended: the same for 3 <= L <= buffer size.  (With L = 2 the two
\* bytes set_crc writes are the length byte and the one behind it.)
C13_SetCrcValidatesFrom3 == SetCrcRoundTrip(3)

\* a buffer longer than the 5 bytes it declares was checksummed and then
\* validated
C13_Witness ==
    /\ ValidatedAfterSetCrc
    /\ bus[1].data[1] = 5
    /\ Len(bus[1].data) = MaxFrameLen
    /\ CodecIn # bus[1].data
    /\ ret = TRUE

(***************************************************************************)
(* The reference CRC, on bit vectors: a value is the function from bit     *)
(* position to bit, XOR is addition modulo 2.                              *)
(***************************************************************************)
RefBit(v, i) == (v \div (2 ^ i)) % 2

\* the value of the n-bit vector f
RECURSIVE RefValue(_, _)
RefValue(f, n) ==
    IF n = 0 THEN 0 ELSE f[n - 1] * (2 ^ (n - 1)) + RefValue(f, n - 1)

\* the byte with its bits in reverse order
RefReverse(byte) == RefValue([i \in 0..7 |-> RefBit(byte, 7 - i)], 8)

\* byte XORed into the high byte of the 16-bit remainder r
RefXorHigh(r, byte) ==
    RefValue([i \in 0..15 |-> IF i >= 8
                              THEN (RefBit(r, i) + RefBit(byte, i - 8)) % 2
                              ELSE RefBit(r, i)], 16)

\* r shifted left one bit modulo 2^16, XORed with 0x8005 when bit 15 of r
\* was set
RefShift(r) ==
    LET s == (2 * r) % (2 ^ 16)
    IN  IF RefBit(r, 15) = 1
        THEN RefValue([i \in 0..15 |-> (RefBit(s, i) + RefBit(32773, i)) % 2],
                      16)
        ELSE s

RECURSIVE RefRounds(_, _)
RefRounds(r, n) ==
    IF n = 0 THEN r
    ELSE LET next == RefShift(r)
         IN  IF next < 2 ^ 16 THEN RefRounds(next, n - 1) ELSE next

\* the reference remainder of a byte sequence
RECURSIVE RefCrc(_)
RefCrc(bytes) ==
    IF bytes = <<>> THEN 0
    ELSE LET before == RefCrc(SubSeq(bytes, 1, Len(bytes) - 1))
         IN  IF before < 2 ^ 16
             THEN RefRounds(
                    RefXorHigh(before, RefReverse(bytes[Len(bytes)])), 8)
             ELSE before

\* C14: rng90_crc16(data, length) is the reference remainder of the first
\* length bytes of data: start at 0; per byte, XOR the bit-reversed byte
\* into the high byte, then 8 times shift left modulo 2^16 and XOR 0x8005
\* when bit 15 was set; no output reflection, no final XOR.  It is 0 for
\* length 0 and always within 0..65535.
C14_CrcIsReference ==
    call.op = "rng90_crc16"
    => /\ ret = RefCrc(SubSeq(CodecIn, 1, call.arg))
       /\ ret \in 0..65535
       /\ call.arg = 0 => ret = 0

\* the CRC of the five bytes 07 30 00 00 00 of the Info command: 0x5D03
C14_Witness ==
    /\ call.op = "rng90_crc16"
    /\ call.arg = 5
    /\ CodecIn = <<7, COMMAND_INFO, 0, 0, 0, 0, 0>>
    /\ ret = 23811

\* the last step is validate_response() on a frame set_crc() produced and
\* one bit of which was then flipped
ValidatedAfterFlip ==
    /\ call.op = "validate_response"
    /\ Len(bus) = 3
    /\ bus[1].op = "set_crc"
    /\ bus[2].op = "flip"

\* the byte position of that flip
FlipPos == bus[2].len \div 8

FlipBehindLengthDetected ==
    ValidatedAfterFlip
    => /\ FlipPos >= 1 => (ret = FALSE /\ ~oob)
       /\ (FlipPos = 0 /\ Len(CodecIn) = 8) => oob

RandomCall == call.op = "random"

\* where the fetch exchanges of the call begin
FetchAt == {j \in 1..Len(bus) : IsCommandWrite(bus[j])}

\* the exchange that begins at j succeeded: write and both reads answered,
\* the response is a checksum-valid frame
FetchOk(j) ==
    /\ j + 3 <= Len(bus)
    /\ bus[j].res >= 0
    /\ IsRead(bus[j + 2]) /\ bus[j + 2].res >= 0
    /\ IsRead(bus[j + 3]) /\ bus[j + 3].res >= 0
    /\ FrameOk(Buffer(bus[j + 2], bus[j + 3]), MAX_RESPONSE_SIZE)

\* the bytes copied into buf, exchange by exchange
Copies == SelectSeq(bus, LAMBDA e : e.op = "memcpy")

RECURSIVE SumLen(_)
SumLen(q) == IF q = <<>> THEN 0 ELSE Head(q).len + SumLen(Tail(q))

\* ceil(n / 32)
Segments(n) == (n + RANDOM_CHUNK - 1) \div RANDOM_CHUNK

\* C16: rng90_random(buf, n) on an initialized context issues one fetch
\* exchange per 32-byte segment: ceil(n/32) when it returns true (two, of 32
\* and 8 bytes, for n = 40); it returns true only after all n bytes were
\* copied; an exchange whose write, read or checksum failed makes it return
\* false and is the last exchange of the call.
C16_RandomChunks ==
    (RandomCall /\ pre.initialized)
    => /\ Cardinality(FetchAt) <= Segments(call.arg)
       /\ ret = TRUE
          => /\ Cardinality(FetchAt) = Segments(call.arg)
             /\ \A j \in FetchAt : FetchOk(j)
             /\ SumLen(Copies) = call.arg
             /\ \A k \in 1..Len(Copies) :
                   Copies[k].len =
                       Min(RANDOM_CHUNK, call.arg - RANDOM_CHUNK * (k - 1))
       /\ (call.arg = 40 /\ ret = TRUE)
          => /\ Cardinality(FetchAt) = 2
             /\ Copies[1].len = 32
             /\ Copies[2].len = 8
       /\ \A j \in FetchAt :
             ~FetchOk(j) => /\ ret = FALSE
                            /\ \A i \in FetchAt : i <= j

\* 40 bytes were asked, the first exchange succeeded, the second response
\* came with a wrong checksum, and the call returned false after it
C16_Witness ==
    /\ RandomCall
    /\ pre.initialized
    /\ call.arg = 40
    /\ Cardinality(FetchAt) = 2
    /\ \E j \in FetchAt :
         /\ ~FetchOk(j)
         /\ j + 3 = Len(bus)
         /\ bus[j + 3].res >= 0
    /\ Len(Copies) = 1
    /\ ret = FALSE

\* the self-test of an initialized context failed with a transport or
\* framing error
SelfTestFailed == SelfTestCall /\ pre.initialized /\ SelfTestLocalFailure

\* the call woke the chip: a reset write and a validated wake response
Woke == \E j \in 1..Len(bus) : WokenAt(j)

\* C17 as claimed: when rng90_self_test() fails with a transport or framing
\* error, initialized, sleeping, test_complete and the identity fields all
\* have the values they had before the call.
C17_FailureLeavesContext == SelfTestFailed => ctx = pre

\* C17, amended: initialized, test_complete and the identity fields have
\* the values they had before the call; sleeping too, unless the call began
\* asleep and woke the chip before the step that failed: then it is false.
C17_FailureLeavesAllButSleeping ==
    SelfTestFailed
    => ctx = [pre EXCEPT !.sleeping = IF Woke THEN FALSE ELSE pre.sleeping]

\* a self-test on a sleeping context woke the chip, its command write
\* failed, and the context is left awake
C17_Witness ==
    /\ SelfTestFailed
    /\ pre.sleeping
    /\ Woke
    /\ Len(CommandWrites) = 1
    /\ CommandWrites[1].res < 0
    /\ ~ctx.sleeping

\* rng90_init() ran the identity query: it wrote the Info command
InitQueried == InitCall /\ ~pre.initialized /\ Len(CommandWrites) >= 1

\* C18: the identity query copies the response bytes 1..4 into rfu,
\* device_id, silicon_id and silicon_rev when the response is checksum-valid
\* with a declared length >= 7, and leaves all four as they were whenever it
\* fails (command write negative, a read negative, checksum mismatch, or a
\* checksum-valid response shorter than 7); never only some of the four.
C18_IdentityAllOrNothing ==
    InitQueried
    => Identity(ctx) = IF InitInfoOk
                       THEN <<at(InitInfoBuffer, 1), at(InitInfoBuffer, 2),
                              at(InitInfoBuffer, 3), at(InitInfoBuffer, 4)>>
                       ELSE Identity(pre)

\* the identity response was the checksum-valid 6-byte frame 06 09 09 09
\* and no identity field was written
C18_Witness ==
    /\ InitQueried
    /\ Len(Reads) = 4 /\ Reads[3].res >= 0 /\ Reads[4].res >= 0
    /\ FrameOk(InitInfoBuffer, InitInfoBuffer[1])
    /\ InitInfoBuffer[1] = 6
    /\ at(InitInfoBuffer, 1) = 9
    /\ Identity(ctx) = <<0, 0, 0, 0>>

\* the opcode and the first parameter the last API call puts in its command
\* frames
CallOpcode == IF SelfTestCall THEN COMMAND_SELFTEST ELSE COMMAND_INFO
CallParam == IF SelfTestCall THEN call.arg % U8 ELSE 0

\* f is an 8-byte command frame: 0x03, the declared length 7, the opcode,
\* the first parameter, zeros, and in its last two bytes the LSB and the MSB
\* of the reference CRC of its bytes 1 .. last
CommandFrame(f, last) ==
    /\ Len(f) = 8
    /\ at(f, 0) = WORD_ADDRESS_COMMAND
    /\ at(f, 1) = 7
    /\ at(f, 2) = CallOpcode
    /\ at(f, 3) = CallParam
    /\ \A i \in 4..5 : at(f, i) = 0
    /\ LET crc == RefCrc(SubSeq(f, 2, last + 1))
       IN  /\ at(f, 6) = crc % 256
           /\ at(f, 7) = crc \div 256

\* C19 as claimed: every command frame written by the identity query and by
\* the self-test is 8 bytes: 0x03, the declared length 7, the opcode, the
\* parameter bytes (the self-test subtype first, the others zero), and the
\* LSB then the MSB of the checksum computed over bytes 1..6 of the frame.
C19_FrameCrcOverSix ==
    (InitCall \/ SelfTestCall)
    => \A k \in 1..Len(CommandWrites) : CommandFrame(CommandWrites[k].data, 6)

\* C19, amended: the same, with the checksum computed over bytes 1..5 of the
\* frame (declared length, opcode and three parameter bytes).
C19_FrameCrcOverFive ==
    (InitCall \/ SelfTestCall)
    => \A k \in 1..Len(CommandWrites) : CommandFrame(CommandWrites[k].data, 5)

\* a full self-test wrote its command frame, subtype 0x21 in byte 3
C19_Witness ==
    /\ SelfTestCall
    /\ call.arg = RNG90_SELFTEST_FULL
    /\ Len(CommandWrites) = 1
    /\ at(CommandWrites[1].data, 2) = COMMAND_SELFTEST
    /\ at(CommandWrites[1].data, 3) = RNG90_SELFTEST_FULL

AttachCall == call.op = "set_i2c_instance"

\* C20: between calls, after rng90_set_i2c_instance() and any sequence of
\* init, sleep, self_test and re-attach calls: the context is never awake
\* and uninitialized; while it is uninitialized the four identity fields
\* are 0; and a call other than rng90_set_i2c_instance() on an initialized
\* context leaves it initialized.
C20_LifecycleInvariants ==
    /\ <<ctx.initialized, ctx.sleeping>>
         \in {<<FALSE, TRUE>>, <<TRUE, FALSE>>, <<TRUE, TRUE>>}
    /\ ~ctx.initialized => Identity(ctx) = <<0, 0, 0, 0>>
    /\ (pre.initialized /\ ~AttachCall) => ctx.initialized

\* an initialized context holding the identity 0x20 0x70 0xC0 0x10 was
\* attached again and is back to uninitialized, asleep, identity 0
C20_Witness ==
    /\ AttachCall
    /\ pre.initialized
    /\ Identity(pre) = <<32, 112, 192, 16>>
    /\ ~ctx.initialized
    /\ ctx.sleeping
    /\ Identity(ctx) = <<0, 0, 0, 0>>

\* the waits of the fetch exchanges of a rng90_random() call: what follows
\* each command write that was accepted
FetchWaits == {bus[j + 1].len : j \in {i \in FetchAt : bus[i].res >= 0}}

RandomWaitedAfterBoot ==
    /\ RandomCall
    /\ pre.initialized
    /\ Len(bus) >= 2
    /\ IsCommandWrite(bus[1])
    /\ bus[1].res >= 0
    /\ bus[2].len = "after boot"
    /\ ret = TRUE

====
